---- MODULE Spec2Model ----
(***************************************************************************)
(* A model of generate_forecast.py: the forecast page generator.  One run  *)
(* of main() checks the credential, fetches the sources of every area,     *)
(* asks the completion service for every (area, slot) cell, reads the page *)
(* template and writes index.html.                                         *)
(*                                                                         *)
(* Strings whose characters matter (completion text, HTML to normalise)    *)
(* are sequences of one-character strings.  A fetched text is carried in   *)
(* the blob as a record of its provenance and its length, which is all     *)
(* that build_area_sources_blob reads of it.                               *)
(***************************************************************************)
EXTENDS Naturals, Sequences, FiniteSets, TLC

VARIABLES
    pc,            \* position of main(): start, client, fetch, ask, template, write, done
    api_key,       \* os.environ.get("OPENAI_API_KEY")
    urls,          \* the registry URLS: area -> (source -> url)
    ai,            \* index in AREAS of the area the current loop is at
    si,            \* index in SOURCE_PRIORITY (fetch loop) or in SLOTS (ask loop)
    parts,         \* the list `parts` of the running build_area_sources_blob call
    area_sources,  \* dict area -> blob
    cells,         \* dict (area, slot) -> cell HTML
    template,      \* contents read from page_template.html, None before the read
    index_html,    \* contents of index.html on disk
    opens,         \* number of times index.html was opened for writing
    exit_status,   \* process exit status, None while running
    log,           \* every external call made so far, in order
    prior,         \* contents of index.html when the run started
    odd,           \* number of non-default answers the environment has given
    completion,    \* the response given to one ask_area_for_day call (SpecAsk)
    returned,      \* what that call returned (SpecAsk)
    html,          \* input of strip_html (SpecStrip)
    texts          \* results of applying strip_html once, twice (SpecStrip)

vars == <<pc, api_key, urls, ai, si, parts, area_sources, cells, template,
          index_html, opens, exit_status, log, prior, odd, completion, returned,
          html, texts>>

mainVars == <<pc, api_key, urls, ai, si, parts, area_sources, cells, template,
              index_html, opens, exit_status, log, prior, odd>>
askVars == <<completion, returned>>
stripVars == <<html, texts>>

----------------------------------------------------------------------------
(* Python values *)

None == [isNone |-> TRUE]
Some(v) == [isNone |-> FALSE, val |-> v]

Min(a, b) == IF a <= b THEN a ELSE b

\* str.isspace() on the characters the model uses
IsSpace(c) == c \in {" ", "\n", "\t"}

RECURSIVE LStrip(_)
LStrip(s) == IF s = <<>> THEN s
             ELSE IF IsSpace(Head(s)) THEN LStrip(Tail(s)) ELSE s

RECURSIVE RStrip(_)
RStrip(s) == IF s = <<>> THEN s
             ELSE IF IsSpace(s[Len(s)]) THEN RStrip(SubSeq(s, 1, Len(s) - 1)) ELSE s

\* str.strip()
Strip(s) == RStrip(LStrip(s))

\* str.splitlines() on "\n": no empty last line after a final newline
RECURSIVE SplitAcc(_, _)
SplitAcc(s, cur) ==
    IF s = <<>> THEN (IF cur = <<>> THEN <<>> ELSE <<cur>>)
    ELSE IF Head(s) = "\n" THEN <<cur>> \o SplitAcc(Tail(s), <<>>)
    ELSE SplitAcc(Tail(s), Append(cur, Head(s)))

SplitLines(s) == SplitAcc(s, <<>>)

\* "\n".join(ls)
RECURSIVE JoinLines(_)
JoinLines(ls) == IF ls = <<>> THEN <<>>
                 ELSE IF Len(ls) = 1 THEN ls[1]
                 ELSE ls[1] \o <<"\n">> \o JoinLines(Tail(ls))

\* s.startswith(p, i-1): p occurs in s at position i (1-based)
StartsAt(s, p, i) == /\ i >= 1
                     /\ i + Len(p) - 1 <= Len(s)
                     /\ SubSeq(s, i, i + Len(p) - 1) = p

\* the least position >= i where p occurs in s, 0 if none
Find(s, p, i) ==
    LET hits == {k \in i..Len(s) : StartsAt(s, p, k)}
    IN IF hits = {} THEN 0 ELSE CHOOSE k \in hits : \A j \in hits : k <= j

\* str.replace(old, new): leftmost, non-overlapping
RECURSIVE Replace(_, _, _)
Replace(s, old, new) ==
    LET k == Find(s, old, 1)
    IN IF k = 0 THEN s
       ELSE SubSeq(s, 1, k - 1) \o new
            \o Replace(SubSeq(s, k + Len(old), Len(s)), old, new)

----------------------------------------------------------------------------
(* strip_html *)

\* (?i): the letters of the tag names, lowered
Lower(c) == CASE c = "S" -> "s" [] c = "C" -> "c" [] c = "R" -> "r"
              [] c = "I" -> "i" [] c = "P" -> "p" [] c = "T" -> "t"
              [] c = "Y" -> "y" [] c = "L" -> "l" [] c = "E" -> "e"
              [] OTHER -> c

LowerSeq(s) == [i \in 1..Len(s) |-> Lower(s[i])]

\* re.sub(r"(?is)<NAME.*?>.*?</NAME>", " ", s) with open = "<NAME" and
\* close = "</NAME>".  A match starts at the least i where open occurs, some
\* ">" follows it and close occurs after that ">"; being lazy it ends at the
\* first close after the first ">".
RECURSIVE ReSubBlock(_, _, _)
ReSubBlock(s, open, close) ==
    LET low == LowerSeq(s)
        gt(i) == Find(s, <<">">>, i + Len(open))
        end(i) == IF gt(i) = 0 THEN 0 ELSE Find(low, close, gt(i) + 1)
        hits == {i \in 1..Len(s) : StartsAt(low, open, i) /\ end(i) # 0}
    IN IF hits = {} THEN s
       ELSE LET i == CHOOSE k \in hits : \A j \in hits : k <= j
                e == end(i) + Len(close) - 1
            IN SubSeq(s, 1, i - 1) \o <<" ">>
               \o ReSubBlock(SubSeq(s, e + 1, Len(s)), open, close)

\* re.sub(r"(?s)<.*?>", " ", s)
RECURSIVE ReSubTag(_)
ReSubTag(s) ==
    LET i == Find(s, <<"<">>, 1)
        j == IF i = 0 THEN 0 ELSE Find(s, <<">">>, i + 1)
    IN IF j = 0 THEN s
       ELSE SubSeq(s, 1, i - 1) \o <<" ">> \o ReSubTag(SubSeq(s, j + 1, Len(s)))

\* re.sub(r"\s+", " ", s)
RECURSIVE ReSubSpaces(_)
ReSubSpaces(s) ==
    IF s = <<>> THEN s
    ELSE IF IsSpace(Head(s)) THEN <<" ">> \o ReSubSpaces(LStrip(s))
    ELSE <<Head(s)>> \o ReSubSpaces(Tail(s))

strip_html(h) ==
    LET h1 == ReSubBlock(h, <<"<", "s", "c", "r", "i", "p", "t">>,
                            <<"<", "/", "s", "c", "r", "i", "p", "t", ">">>)
        h2 == ReSubBlock(h1, <<"<", "s", "t", "y", "l", "e">>,
                             <<"<", "/", "s", "t", "y", "l", "e", ">">>)
        t0 == ReSubTag(h2)
        t1 == Replace(t0, <<"&", "n", "b", "s", "p", ";">>, <<" ">>)
        t2 == Replace(t1, <<"&", "a", "m", "p", ";">>, <<"&">>)
        t3 == Replace(t2, <<"&", "l", "t", ";">>, <<"<">>)
        t4 == Replace(t3, <<"&", "g", "t", ";">>, <<">">>)
    IN Strip(ReSubSpaces(t4))

\* pieces of markup the inputs of strip_html are put together from
Fragments ==
    { <<"a">>, <<" ">>, <<"\n">>, <<"<">>, <<">">>,
      <<"<", "b", ">">>,
      <<"&", "l", "t", ";">>, <<"&", "g", "t", ";">>,
      <<"&", "a", "m", "p", ";">>, <<"&", "n", "b", "s", "p", ";">>,
      <<"l", "t", ";">>,
      <<"<", "S", "c", "r", "i", "p", "t", ">">>,
      <<"<", "/", "s", "c", "r", "i", "p", "t", ">">>,
      <<"<", "s", "t", "y", "l", "e", " ", "a", ">">>,
      <<"<", "/", "S", "T", "Y", "L", "E", ">">> }

MaxFrags == 3

RECURSIVE Concat(_)
Concat(ss) == IF ss = <<>> THEN <<>> ELSE Head(ss) \o Concat(Tail(ss))

HtmlInputs ==
    {Concat(fs) : fs \in UNION {[1..n -> Fragments] : n \in 0..MaxFrags}}

InitIdleStrip == html = <<>> /\ texts = <<>>

\* one application of the normalizer to the text so far
Normalize ==
    /\ Len(texts) < 2
    /\ texts' = Append(texts, strip_html(IF texts = <<>> THEN html
                                         ELSE texts[Len(texts)]))
    /\ UNCHANGED <<mainVars, askVars, html>>

----------------------------------------------------------------------------
(* ask_area_for_day *)

N == 7

NA == <<"n", "/", "a">>

\* while len(lines) < 7: lines.append("n/a")
RECURSIVE Pad(_)
Pad(ls) == IF Len(ls) < N THEN Pad(Append(ls, NA)) ELSE ls

\* lines[:7]
Truncate(ls) == SubSeq(ls, 1, Min(N, Len(ls)))

\* the correction without the lines[:7] slice
CorrectNoTruncate(ls) == IF Len(ls) # N THEN Pad(ls) ELSE ls

\* the best-effort correction
Correct(ls) == IF Len(ls) # N THEN Pad(Truncate(ls)) ELSE ls

\* [l.rstrip() for l in txt.splitlines() if l.strip() != ""]
NonBlankLines(txt) ==
    LET NotBlank(l) == Strip(l) # <<>>
        kept == SelectSeq(SplitLines(txt), NotBlank)
    IN [i \in 1..Len(kept) |-> RStrip(kept[i])]

\* txt = (resp.choices[0].message.content or "").strip()
ResponseText(c) ==
    LET content == c.choices[1]
    IN Strip(IF content.isNone THEN <<>> ELSE content.val)

\* ask_area_for_day without the `if not txt: return None` check
ask_area_for_day_padding_empty(c) ==
    IF c.raises \/ c.choices = <<>> THEN None
    ELSE Some(Correct(NonBlankLines(ResponseText(c))))

\* A response c either raises in create(), or carries the list choices of
\* message contents; indexing an empty list raises inside the try block.
ask_area_for_day(c) ==
    IF c.raises \/ c.choices = <<>> THEN None
    ELSE IF ResponseText(c) = <<>> THEN None
    ELSE Some(Correct(NonBlankLines(ResponseText(c))))

\* the lines completion texts are put together from: blank, plain, padded
LineChoices == { <<" ">>, <<"a">>, <<" ", "b", " ">> }

MaxLines == 8

CompletionTexts ==
    {JoinLines(ls) : ls \in UNION {[1..n -> LineChoices] : n \in 0..MaxLines}}

ApiError == [raises |-> TRUE, choices |-> <<>>]
NoChoices == [raises |-> FALSE, choices |-> <<>>]
NoContent == [raises |-> FALSE, choices |-> <<None>>]
Answer(t) == [raises |-> FALSE, choices |-> <<Some(t)>>]

Completions == {ApiError, NoChoices, NoContent} \cup {Answer(t) : t \in CompletionTexts}

InitIdleAsk == completion = NoChoices /\ returned = <<>>

\* one call of ask_area_for_day
Ask ==
    /\ returned = <<>>
    /\ returned' = <<ask_area_for_day(completion)>>
    /\ UNCHANGED <<mainVars, stripVars, completion>>

----------------------------------------------------------------------------
(* The source registry *)

\* a priority list that names a source twice
SOURCE_PRIORITY_retrying == <<"mwis", "metoffice", "windy", "mountainforecast", "mwis">>

SOURCE_PRIORITY == <<"mwis", "metoffice", "windy", "mountainforecast">>

MAX_CHARS == [src \in {"mwis", "metoffice", "windy", "mountainforecast"} |->
                 CASE src = "mwis" -> 9000
                   [] src = "metoffice" -> 9000
                   [] src = "windy" -> 2000
                   [] src = "mountainforecast" -> 2000]

\* MAX_CHARS.get(src, 2000)
Cap(src) == IF src \in DOMAIN MAX_CHARS THEN MAX_CHARS[src] ELSE 2000

URLS ==
    [area \in {"The Peak District", "Eryri", "Bannau Brycheiniog", "The Lake District"} |->
        [src \in {"mwis", "metoffice", "windy", "mountainforecast"} |->
            CASE src = "windy" -> "https://www.windy.com/"
              [] src = "mountainforecast" -> "https://www.mountain-forecast.com/"
              [] src = "mwis" ->
                    (CASE area = "The Peak District" ->
                            "https://www.mwis.org.uk/forecasts/english-and-welsh/peak-district"
                       [] area = "Eryri" ->
                            "https://www.mwis.org.uk/forecasts/english-and-welsh/snowdonia-national-park"
                       [] area = "Bannau Brycheiniog" ->
                            "https://www.mwis.org.uk/forecasts/english-and-welsh/brecon-beacons"
                       [] area = "The Lake District" ->
                            "https://www.mwis.org.uk/forecasts/english-and-welsh/lake-district")
              [] src = "metoffice" ->
                    (CASE area = "The Peak District" ->
                            "https://weather.metoffice.gov.uk/specialist-forecasts/mountain/peak-district"
                       [] area = "Eryri" ->
                            "https://weather.metoffice.gov.uk/specialist-forecasts/mountain/snowdonia"
                       [] area = "Bannau Brycheiniog" ->
                            "https://weather.metoffice.gov.uk/specialist-forecasts/mountain/brecon-beacons"
                       [] area = "The Lake District" ->
                            "https://weather.metoffice.gov.uk/specialist-forecasts/mountain/lake-district")]]

\* list(URLS.keys()): insertion order
AREAS == <<"The Peak District", "Eryri", "Bannau Brycheiniog", "The Lake District">>

\* len(url)
UrlLen(url) ==
    CASE url = "https://www.windy.com/" -> 22
      [] url = "https://www.mountain-forecast.com/" -> 34
      [] url = "https://www.mwis.org.uk/forecasts/english-and-welsh/peak-district" -> 65
      [] url = "https://www.mwis.org.uk/forecasts/english-and-welsh/snowdonia-national-park" -> 75
      [] url = "https://www.mwis.org.uk/forecasts/english-and-welsh/brecon-beacons" -> 66
      [] url = "https://www.mwis.org.uk/forecasts/english-and-welsh/lake-district" -> 65
      [] url = "https://weather.metoffice.gov.uk/specialist-forecasts/mountain/peak-district" -> 76
      [] url = "https://weather.metoffice.gov.uk/specialist-forecasts/mountain/snowdonia" -> 72
      [] url = "https://weather.metoffice.gov.uk/specialist-forecasts/mountain/brecon-beacons" -> 77
      [] url = "https://weather.metoffice.gov.uk/specialist-forecasts/mountain/lake-district" -> 76
      [] OTHER -> 0

\* dict.get(key)
Get(d, key) == IF key \in DOMAIN d THEN Some(d[key]) ELSE None

\* `not url` for an Optional[str]
NoUrl(u) == IF u.isNone THEN TRUE ELSE u.val = ""

----------------------------------------------------------------------------
(* fetch_text *)

\* What requests.get does for one call: it raises (message of msglen
\* characters) or answers with a status and a body; len is the length of
\* strip_html(r.text).
DefaultResponse == [raised |-> FALSE, status |-> 200, len |-> 2000, msglen |-> 0]

OddResponses ==
    { [raised |-> FALSE, status |-> 200, len |-> 9001, msglen |-> 0],
      [raised |-> FALSE, status |-> 400, len |-> 2000, msglen |-> 0],
      [raised |-> TRUE, status |-> 0, len |-> 0, msglen |-> 9000] }

Responses == {DefaultResponse} \cup OddResponses

\* fetch_text without the status check
fetch_text_ignoring_status(url, r) ==
    IF r.raised
    THEN <<FALSE, [kind |-> "FETCH ERROR", len |-> 16 + r.msglen + UrlLen(url)]>>
    ELSE <<TRUE, [kind |-> "page", len |-> r.len]>>

\* The text is "[HTTP nnn] url", "[FETCH ERROR: e] url" or the stripped body.
fetch_text(url, r) ==
    IF r.raised
    THEN <<FALSE, [kind |-> "FETCH ERROR", len |-> 16 + r.msglen + UrlLen(url)]>>
    ELSE IF r.status >= 400
    THEN <<FALSE, [kind |-> "HTTP", len |-> 11 + UrlLen(url)]>>
    ELSE <<TRUE, [kind |-> "page", len |-> r.len]>>

\* a cut applied to page text only
SliceBodyOnly(text, cap) ==
    IF text.kind = "page" THEN [text EXCEPT !.len = Min(text.len, cap)] ELSE text

\* text[:cap]
Slice(text, cap) == [text EXCEPT !.len = Min(text.len, cap)]

----------------------------------------------------------------------------
(* build_area_sources_blob *)

\* parts = [f"=== AREA: {area} ==="]
NewParts(area) == <<[kind |-> "area", area |-> area]>>

\* the two parts.append calls of one iteration
SourceParts(src, url, ok, text) ==
    << [kind |-> "source", src |-> src, url |-> url, ok |-> ok],
       Slice(text, Cap(src)) >>

----------------------------------------------------------------------------
(* lines_to_cell_html *)

EscapeHtml(ln) ==
    Replace(Replace(Replace(ln, <<"&">>, <<"&", "a", "m", "p", ";">>),
                    <<"<">>, <<"&", "l", "t", ";">>),
            <<">">>, <<"&", "g", "t", ";">>)

\* the div of spans, one span per non-blank line
lines_to_cell_html(ls) ==
    LET NotBlank(l) == Strip(l) # <<>>
        kept == SelectSeq(ls, NotBlank)
    IN [class |-> "lines",
        spans |-> [i \in 1..Len(kept) |-> EscapeHtml(Strip(kept[i]))]]

----------------------------------------------------------------------------
(* main *)

\* the slots with the outlook asked first
SLOTS_outlook_first == <<"outlook", "day1", "day2", "day3">>

\* day1..day3 from enumerate(day_titles, start=1), then the outlook
SLOTS == <<"day1", "day2", "day3", "outlook">>

\* the (area, slot) pairs the template substitution reads with get()
PLACEHOLDERS ==
    { <<"The Peak District", "day1">>, <<"The Peak District", "day2">>,
      <<"The Peak District", "day3">>, <<"The Peak District", "outlook">>,
      <<"Eryri", "day1">>, <<"Eryri", "day2">>,
      <<"Eryri", "day3">>, <<"Eryri", "outlook">>,
      <<"Bannau Brycheiniog", "day1">>, <<"Bannau Brycheiniog", "day2">>,
      <<"Bannau Brycheiniog", "day3">>, <<"Bannau Brycheiniog", "outlook">>,
      <<"The Lake District", "day1">>, <<"The Lake District", "day2">>,
      <<"The Lake District", "day3">>, <<"The Lake District", "outlook">> }

\* `api_key is None`
KeyMissingOnlyUnset(k) == k.isNone

\* `not api_key`
KeyMissing(k) == IF k.isNone THEN TRUE ELSE k.val = ""

\* `not lines` for an Optional[List[str]]
NoLines(l) == IF l.isNone THEN TRUE ELSE l.val = <<>>

\* a `break` in place of `return 0`
OnMissingFallThrough == "template"

\* where `return 0` after a missing cell leaves main()
OnMissing == "done"

\* the completions a run of main() is checked with
GoodText == JoinLines([i \in 1..N |-> <<"a">>])
ShortText == JoinLines(<<<<"a">>, <<" ", "b", " ">>>>)
DefaultCompletion == Answer(GoodText)
FailedCompletions == {ApiError, NoChoices, NoContent, Answer(<<" ">>)}
OddCompletions == {Answer(ShortText)}

MaxOdd == 1

Cost(answer, default) == IF answer = default THEN 0 ELSE 1

PreviousPage == [page |-> "previous run"]
NoPage == [page |-> "absent"]
TruncatedPage == [page |-> "truncated"]

\* template.replace(...) with the header and the sixteen cells
Render(tpl, cs) == [page |-> "rendered", template |-> tpl,
                    cells |-> [k \in PLACEHOLDERS |-> cs[k]]]

InitMain ==
    /\ pc = "start"
    /\ api_key \in {None, Some(""), Some("sk-key")}
    /\ urls = URLS
    /\ ai = 1 /\ si = 1
    /\ parts = <<>>
    /\ area_sources = <<>>
    /\ cells = <<>>
    /\ template = None
    /\ prior \in {NoPage, PreviousPage}
    /\ index_html = prior
    /\ opens = 0
    /\ exit_status = None
    /\ log = <<>>
    /\ odd = 0

Init == InitMain /\ InitIdleAsk /\ InitIdleStrip

\* api_key = os.environ.get(...); if not api_key: return 0
CheckKey ==
    /\ pc = "start"
    /\ IF KeyMissing(api_key)
       THEN pc' = "done" /\ exit_status' = Some(0)
       ELSE pc' = "client" /\ UNCHANGED exit_status
    /\ UNCHANGED <<api_key, urls, ai, si, parts, area_sources, cells, template,
                   index_html, opens, log, prior, odd, askVars, stripVars>>

\* client = OpenAI(api_key=api_key); an exception here is not caught
MakeClient ==
    /\ pc = "client"
    /\ \E ok \in BOOLEAN :
         IF ok
         THEN /\ pc' = "fetch"
              /\ ai' = 1 /\ si' = 1
              /\ parts' = NewParts(AREAS[1])
              /\ UNCHANGED exit_status
         ELSE /\ pc' = "done"
              /\ exit_status' = Some(1)
              /\ UNCHANGED <<ai, si, parts>>
    /\ UNCHANGED <<api_key, urls, area_sources, cells, template, index_html, opens,
                   log, prior, odd, askVars, stripVars>>

\* One iteration of `for src in SOURCE_PRIORITY` in build_area_sources_blob,
\* called from `for area in AREAS`; after the last source the blob is stored
\* in area_sources and the next area's call starts.
FetchSource ==
    /\ pc = "fetch"
    /\ LET area == AREAS[ai]
           src == SOURCE_PRIORITY[si]
           url == Get(urls[area], src)
       IN \E r \in Responses :
            LET res == fetch_text(url.val, r)
                fetched == ~NoUrl(url)
                built == IF fetched
                         THEN parts \o SourceParts(src, url.val, res[1], res[2])
                         ELSE parts
            IN /\ fetched => odd + Cost(r, DefaultResponse) <= MaxOdd
               /\ ~fetched => r = DefaultResponse
               /\ odd' = IF fetched THEN odd + Cost(r, DefaultResponse) ELSE odd
               /\ log' = IF fetched
                         THEN Append(log, [op |-> "fetch", area |-> area, src |-> src,
                                           url |-> url.val, ok |-> res[1],
                                           failed |-> r.raised \/ r.status >= 400])
                         ELSE log
               /\ IF si < Len(SOURCE_PRIORITY)
                  THEN /\ si' = si + 1
                       /\ parts' = built
                       /\ UNCHANGED <<pc, ai, area_sources>>
                  ELSE /\ area_sources' = (area :> built) @@ area_sources
                       /\ si' = 1
                       /\ IF ai < Len(AREAS)
                          THEN /\ ai' = ai + 1
                               /\ parts' = NewParts(AREAS[ai + 1])
                               /\ UNCHANGED pc
                          ELSE /\ ai' = 1
                               /\ parts' = <<>>
                               /\ pc' = "ask"
    /\ UNCHANGED <<api_key, urls, cells, template, index_html, opens, exit_status,
                   prior, askVars, stripVars>>

\* One call of ask_area_for_day in the cell loops, its `if not lines` check
\* and the store into cells.
AskCell ==
    /\ pc = "ask"
    /\ LET area == AREAS[ai]
           slot == SLOTS[si]
       IN \E c \in {DefaultCompletion} \cup FailedCompletions \cup OddCompletions :
            LET ls == ask_area_for_day(c)
            IN /\ ~NoLines(ls) => odd + Cost(c, DefaultCompletion) <= MaxOdd
               /\ odd' = IF NoLines(ls) THEN odd ELSE odd + Cost(c, DefaultCompletion)
               /\ log' = Append(log, [op |-> "ask", area |-> area, slot |-> slot,
                                      ok |-> ~ls.isNone])
               /\ IF NoLines(ls)
                  THEN /\ pc' = OnMissing
                       /\ exit_status' = IF OnMissing = "done" THEN Some(0) ELSE None
                       /\ UNCHANGED <<ai, si, cells>>
                  ELSE /\ cells' = (<<area, slot>> :> lines_to_cell_html(ls.val)) @@ cells
                       /\ UNCHANGED exit_status
                       /\ IF si < Len(SLOTS)
                          THEN si' = si + 1 /\ UNCHANGED <<pc, ai>>
                          ELSE /\ si' = 1
                               /\ IF ai < Len(AREAS)
                                  THEN ai' = ai + 1 /\ UNCHANGED pc
                                  ELSE ai' = 1 /\ pc' = "template"
    /\ UNCHANGED <<api_key, urls, parts, area_sources, template, index_html, opens,
                   prior, askVars, stripVars>>

\* with open("page_template.html") ...: f.read(); an exception is not caught
ReadTemplate ==
    /\ pc = "template"
    /\ log' = Append(log, [op |-> "read_template"])
    /\ \E ok \in BOOLEAN :
         IF ok
         THEN /\ template' = Some("page_template.html")
              /\ pc' = "write"
              /\ UNCHANGED exit_status
         ELSE /\ pc' = "done"
              /\ exit_status' = Some(1)
              /\ UNCHANGED template
    /\ UNCHANGED <<api_key, urls, ai, si, parts, area_sources, cells, index_html,
                   opens, prior, odd, askVars, stripVars>>

\* The substitution, open("index.html", "w"), f.write(html) and return 0.
\* open can fail before the file is touched; once it succeeded the file is
\* truncated and a failing write leaves it so; neither exception is caught.
WritePage ==
    /\ pc = "write"
    /\ log' = Append(log, [op |-> "write"])
    /\ pc' = "done"
    /\ LET page == Render(template.val, cells)
       IN \E outcome \in {"written", "open fails", "write fails"} :
            CASE outcome = "written" ->
                    /\ opens' = opens + 1
                    /\ index_html' = page
                    /\ exit_status' = Some(0)
              [] outcome = "open fails" ->
                    /\ UNCHANGED <<opens, index_html>>
                    /\ exit_status' = Some(1)
              [] outcome = "write fails" ->
                    /\ opens' = opens + 1
                    /\ index_html' = TruncatedPage
                    /\ exit_status' = Some(1)
    /\ UNCHANGED <<api_key, urls, ai, si, parts, area_sources, cells, template,
                   prior, odd, askVars, stripVars>>

Next == CheckKey \/ MakeClient \/ FetchSource \/ AskCell \/ ReadTemplate \/ WritePage

Spec == Init /\ [][Next]_vars

----------------------------------------------------------------------------
(* Specifications of the parts taken alone *)

IdleMain ==
    /\ pc = "idle"
    /\ api_key = None
    /\ urls = URLS
    /\ ai = 1 /\ si = 1
    /\ parts = <<>>
    /\ area_sources = <<>>
    /\ cells = <<>>
    /\ template = None
    /\ prior = NoPage
    /\ index_html = NoPage
    /\ opens = 0
    /\ exit_status = None
    /\ log = <<>>
    /\ odd = 0

\* ask_area_for_day on every response of Completions
InitAsk == IdleMain /\ InitIdleStrip /\ completion \in Completions /\ returned = <<>>

SpecAsk == InitAsk /\ [][Ask]_vars

\* strip_html applied twice on every input of HtmlInputs
InitStrip == IdleMain /\ InitIdleAsk /\ html \in HtmlInputs /\ texts = <<>>

SpecStrip == InitStrip /\ [][Normalize]_vars

\* A registry in which sources are absent: no "mwis" key, an empty URL,
\* a single source.
SparseURLS ==
    [area \in DOMAIN URLS |->
        CASE area = "The Peak District" ->
                [src \in {"metoffice", "windy", "mountainforecast"} |-> URLS[area][src]]
          [] area = "Eryri" -> [URLS[area] EXCEPT !["windy"] = ""]
          [] area = "Bannau Brycheiniog" ->
                [src \in {"mountainforecast"} |-> URLS[area][src]]
          [] OTHER -> URLS[area]]

\* build_area_sources_blob for every area, over the registry of the program
\* and over SparseURLS, from the point where main() enters its first loop
InitBlob ==
    /\ pc = "fetch"
    /\ api_key = Some("sk-key")
    /\ urls \in {URLS, SparseURLS}
    /\ ai = 1 /\ si = 1
    /\ parts = NewParts(AREAS[1])
    /\ area_sources = <<>>
    /\ cells = <<>>
    /\ template = None
    /\ prior \in {NoPage, PreviousPage}
    /\ index_html = prior
    /\ opens = 0
    /\ exit_status = None
    /\ log = <<>>
    /\ odd = 0
    /\ InitIdleAsk /\ InitIdleStrip

SpecBlob == InitBlob /\ [][FetchSource]_vars

----------------------------------------------------------------------------
(* Properties *)

Events(op) == {i \in 1..Len(log) : log[i].op = op}

Calls == Events("fetch") \cup Events("ask")

AreaRank(area) == CASE area = "The Peak District" -> 1
                    [] area = "Eryri" -> 2
                    [] area = "Bannau Brycheiniog" -> 3
                    [] area = "The Lake District" -> 4

SourceRank(src) == CASE src = "mwis" -> 1
                     [] src = "metoffice" -> 2
                     [] src = "windy" -> 3
                     [] src = "mountainforecast" -> 4

SlotRank(slot) == CASE slot = "day1" -> 1
                    [] slot = "day2" -> 2
                    [] slot = "day3" -> 3
                    [] slot = "outlook" -> 4

Budget(src) == IF src \in {"mwis", "metoffice"} THEN 9000 ELSE 2000

KeyAbsent == IF api_key.isNone THEN TRUE ELSE api_key.val = ""

\* C1: index.html is written at most once, as the last action of the run,
\* and only after the credential was present, all 16 (area, slot) cells were
\* returned non-empty by ask_area_for_day and page_template.html was read;
\* a call of ask_area_for_day that returns None is the last call of the run,
\* which stops without a write and leaves index.html as it was.
PublishOnlyWhenComplete ==
    /\ opens <= 1
    /\ Cardinality(Events("write")) <= 1
    /\ index_html # prior => opens = 1
    /\ opens = 1 =>
         /\ pc = "done"
         /\ log[Len(log)].op = "write"
         /\ ~KeyAbsent
         /\ ~template.isNone
         /\ Events("read_template") # {}
         /\ PLACEHOLDERS \subseteq DOMAIN cells
         /\ \A k \in PLACEHOLDERS :
              /\ cells[k].spans # <<>>
              /\ \E i \in Events("ask") :
                   log[i].area = k[1] /\ log[i].slot = k[2] /\ log[i].ok
         /\ Cardinality(Events("ask")) = 16
    /\ \A i \in Events("ask") :
         ~log[i].ok =>
           /\ i = Len(log)
           /\ pc = "done"
           /\ opens = 0
           /\ index_html = prior

PageWritten ==
    /\ pc = "done"
    /\ opens = 1
    /\ index_html.page = "rendered"
    /\ index_html # prior

\* C2: when OPENAI_API_KEY is missing or empty, main() returns 0 without
\* opening index.html for writing and without any fetch or completion call.
MissingKeyIsNoOp ==
    KeyAbsent =>
      /\ pc \in {"start", "done"}
      /\ log = <<>>
      /\ opens = 0
      /\ index_html = prior
      /\ area_sources = <<>>
      /\ cells = <<>>
      /\ pc = "done" => exit_status = Some(0)

EmptyKeyRunEnded ==
    /\ pc = "done"
    /\ api_key = Some("")
    /\ exit_status = Some(0)

\* C4 (as stated): every path through main() ends with exit status 0.
AlwaysExitsZero == pc = "done" => exit_status = Some(0)

\* C5 (as stated): within one run no URL is requested twice.
EachUrlFetchedOnce ==
    \A i, j \in Events("fetch") : i < j => log[i].url # log[j].url

\* C5 (amended): each (area, source) entry of the registry is requested at
\* most once in a run, so a URL is requested at most once per entry that
\* lists it; a URL that several areas list is requested once for each.
EachEntryFetchedOnce ==
    /\ \A i, j \in Events("fetch") :
         i < j => <<log[i].area, log[i].src>> # <<log[j].area, log[j].src>>
    /\ \A i \in Events("fetch") :
         /\ log[i].area \in DOMAIN urls
         /\ log[i].src \in DOMAIN urls[log[i].area]
         /\ urls[log[i].area][log[i].src] = log[i].url
    /\ \A u \in {log[i].url : i \in Events("fetch")} :
         Cardinality({j \in Events("fetch") : log[j].url = u})
           <= Cardinality({e \in (DOMAIN urls) \X (DOMAIN MAX_CHARS) :
                             /\ e[2] \in DOMAIN urls[e[1]]
                             /\ urls[e[1]][e[2]] = u})

SharedUrlFetchedPerArea ==
    /\ Cardinality(Events("fetch")) = 16
    /\ Cardinality({j \in Events("fetch") : log[j].url = "https://www.windy.com/"}) = 4

\* C8: a transport error or a status >= 400 makes fetch_text return
\* ok = False with a bracketed diagnostic, which goes into the blob under the
\* header of its source with OK: False; a fetch never ends the run.
BlobOf(area) == IF area \in DOMAIN area_sources THEN area_sources[area] ELSE parts

TransportFailureContained ==
    /\ \A i \in Events("fetch") :
         log[i].failed =>
           /\ ~log[i].ok
           /\ LET blob == BlobOf(log[i].area)
              IN \E k \in 1..(Len(blob) - 1) :
                   /\ blob[k] = [kind |-> "source", src |-> log[i].src,
                                 url |-> log[i].url, ok |-> FALSE]
                   /\ blob[k + 1].kind \in {"HTTP", "FETCH ERROR"}
    /\ \A i \in Events("fetch") : ~log[i].failed => log[i].ok
    /\ (pc = "done" /\ log # <<>>) => log[Len(log)].op # "fetch"
    /\ Events("ask") # {} => Cardinality(Events("fetch")) = 16

PublishedDespiteFailedFetch ==
    /\ pc = "done"
    /\ index_html.page = "rendered"
    /\ \E i \in Events("fetch") : log[i].failed /\ ~log[i].ok

\* C10 (as stated): all work for one region, its fetches and its cells, is
\* done before any work for the next region begins.
RegionAtATime ==
    \A i, j \in Calls : i < j => AreaRank(log[i].area) <= AreaRank(log[j].area)

\* C10 (amended): the run is sequential in two passes over the regions: first
\* the sources of every region are fetched, region by region in priority
\* order, then the cells are obtained region by region, day1, day2, day3 and
\* outlook in that order; no completion call is made before the last fetch.
\* The calls of a run are, in order: the 16 fetches, the 16 completion calls
\* (fewer when one fails, which is then the last), the template read, the write.
TwoPassesInOrder ==
    \A i \in 1..Len(log) :
      /\ i <= 16 =>
           /\ log[i].op = "fetch"
           /\ AreaRank(log[i].area) = ((i - 1) \div 4) + 1
           /\ SourceRank(log[i].src) = ((i - 1) % 4) + 1
      /\ (16 < i /\ i <= 32) =>
           /\ log[i].op = "ask"
           /\ AreaRank(log[i].area) = ((i - 17) \div 4) + 1
           /\ SlotRank(log[i].slot) = ((i - 17) % 4) + 1
           /\ i < Len(log) => log[i].ok
      /\ i > 32 => log[i].op \in {"read_template", "write"}

AllCallsMade ==
    /\ Cardinality(Events("fetch")) = 16
    /\ Cardinality(Events("ask")) = 16
    /\ \A i \in Events("ask") : log[i].ok

\* C7: every blob lists its sources in the order mwis, metoffice, windy,
\* mountainforecast, leaves out a source the area's mapping lacks, has one
\* header and one text part per present source, and no text part is longer
\* than the budget of its source, a failure diagnostic included.
BlobWellFormed ==
    \A area \in DOMAIN area_sources :
      LET blob == area_sources[area]
          present == {src \in DOMAIN urls[area] : urls[area][src] # ""}
          n == Cardinality(present)
      IN /\ Len(blob) = 1 + 2 * n
         /\ blob[1] = [kind |-> "area", area |-> area]
         /\ \A k \in 1..n :
              /\ blob[2 * k].kind = "source"
              /\ blob[2 * k].src \in present
              /\ blob[2 * k].url = urls[area][blob[2 * k].src]
              /\ blob[2 * k + 1].kind \in {"page", "HTTP", "FETCH ERROR"}
              /\ blob[2 * k].ok = (blob[2 * k + 1].kind = "page")
              /\ blob[2 * k + 1].len <= Budget(blob[2 * k].src)
         /\ \A k, m \in 1..n :
              k < m => SourceRank(blob[2 * k].src) < SourceRank(blob[2 * m].src)

SkippedAndCutBlob ==
    \E area \in DOMAIN area_sources :
      LET blob == area_sources[area]
      IN /\ Len(blob) = 7
         /\ \E k \in 1..3 :
              /\ blob[2 * k + 1].kind = "FETCH ERROR"
              /\ blob[2 * k + 1].len = Budget(blob[2 * k].src)

\* C3: for a completion text that is not empty, the returned list has
\* exactly 7 lines: the non-blank lines of the text in order, the first 7 of
\* them when there are more, followed by "n/a" up to 7 when there are fewer,
\* and exactly those lines when there are 7.
HasText == IF completion.raises \/ completion.choices = <<>> THEN FALSE
           ELSE IF completion.choices[1].isNone THEN FALSE
           ELSE ResponseText(completion) # <<>>

CorrectorYieldsSeven ==
    (returned # <<>> /\ HasText) =>
      LET found == NonBlankLines(ResponseText(completion))
          out == returned[1]
      IN /\ ~out.isNone
         /\ Len(out.val) = 7
         /\ \A i \in 1..7 :
              out.val[i] = IF i <= Len(found) THEN found[i] ELSE <<"n", "/", "a">>
         /\ Len(found) = 7 => out.val = found

TruncatedToSeven ==
    /\ returned # <<>>
    /\ HasText
    /\ Len(NonBlankLines(ResponseText(completion))) > 7
    /\ Len(returned[1].val) = 7

\* C9: ask_area_for_day returns None exactly when the call raises, the
\* response content is missing, or the content is empty or only whitespace;
\* otherwise it returns lines that begin with the first non-blank line of
\* the content.
OnlyWhitespace(t) == \A i \in 1..Len(t) : t[i] \in {" ", "\n", "\t"}

CompletionFailed ==
    IF completion.raises \/ completion.choices = <<>> THEN TRUE
    ELSE IF completion.choices[1].isNone THEN TRUE
    ELSE OnlyWhitespace(completion.choices[1].val)

UniformFailure ==
    returned # <<>> =>
      /\ returned[1].isNone <=> CompletionFailed
      /\ ~CompletionFailed =>
           LET found == NonBlankLines(completion.choices[1].val)
           IN /\ found # <<>>
              /\ returned[1].val[1] = Strip(found[1])
              /\ \A i \in 1..Len(returned[1].val) :
                   \/ returned[1].val[i] = <<"n", "/", "a">>
                   \/ \E k \in 1..Len(found) : returned[1].val[i] = Strip(found[k])
                   \/ \E k \in 1..Len(found) : returned[1].val[i] = RStrip(found[k])

WhitespaceOnlyGivesNone ==
    /\ returned = <<None>>
    /\ ~completion.raises
    /\ completion.choices # <<>>
    /\ ~completion.choices[1].isNone
    /\ Len(completion.choices[1].val) > 1

\* C6 (as stated): strip_html(strip_html(s)) = strip_html(s) for every s.
Idempotent == Len(texts) = 2 => texts[2] = texts[1]

====
